---- MODULE Spec2Model ----
(***************************************************************************)
(* Coordinate-extraction engine of MAP-LINK-LONG-LANG.                     *)
(*                                                                         *)
(* A map link is a Python value: None, a non-string, or a string.  A       *)
(* string is a finite sequence of lexical tokens; the regular expressions  *)
(* of the engine are translated to matchers over such sequences, keeping   *)
(* re.search's leftmost-match rule.  A numeric literal token carries its   *)
(* value (whole degrees) and whether it is written with a decimal          *)
(* fraction ("40.0") or without one ("40"), which is what the patterns     *)
(* \d+\.\d+ and \d+(?:\.\d+)? tell apart.                                   *)
(***************************************************************************)
EXTENDS Integers, Sequences, FiniteSets, TLC

VARIABLES
    vLng, vLat, vOut,      \* a direct call of validate_coordinates
    engine,                \* entry point the caller selected: "mc" | "enh" | "par"
    link,                  \* the map_link argument
    pc,                    \* position of the calling thread inside the entry point
    ret,                   \* value returned by the sequential entry point
    calls,                 \* layers invoked so far by the sequential orchestrator
    outs,                  \* pair returned by each invoked layer
    net,                   \* network requests issued so far, counted per kind
    apiKey,                \* is GOOGLE_MAPS_API_KEY configured
    caught,                \* layers whose except clause ran ("Method N failed" was logged)
    fut,                   \* parallel mode: state of each submitted future
    fres,                  \* parallel mode: value a finished future holds
    results,               \* parallel mode: the results dict
    timedOut,              \* parallel mode: as_completed raised TimeoutError
    best,                  \* parallel mode: Best_LONG/Best_LAT chosen by the caller
    caller,                \* row processing: which row loop runs: "excel" | "flask" | "stream"
    table,                 \* row processing: the rows of the data frame
    idx,                   \* row processing: the row the loop is at
    rpc,                   \* row processing: position inside the loop body
    attempt,               \* row processing: the loop variable of the retry loop
    got,                   \* row processing: the locals lng, lat
    counters,              \* row processing: successful, failed, skipped
    bc1, bc2,              \* a direct use of the bare-pair branches: the two numbers
    bOut,                  \* ... and what each copy of the branches returned
    app,                   \* web: which application runs: "flask" | "streaming"
    now,                   \* web: time.time(), in units of SESSION_TTL / TTL
    store,                 \* web: processing_results
    used,                  \* web: the session ids uuid4() has handed out
    uploads,               \* web: sessions whose uploaded file is on disk
    outputs,               \* web: sessions whose processed file is on disk
    lock,                  \* web: session_locks, TRUE when held
    rq,                    \* web: the process requests being handled
    dl                     \* web: the answer of the last download request

vars == <<vLng, vLat, vOut, engine, link, pc, ret, calls, outs, net, apiKey,
          caught, fut, fres, results, timedOut, best,
          caller, table, idx, rpc, attempt, got, counters,
          bc1, bc2, bOut,
          app, now, store, used, uploads, outputs, lock, rq, dl>>

(***************************************************************************)
(* Values                                                                  *)
(***************************************************************************)
\* A component of a returned pair is None or a number x, written <<>> and
\* <<x>>; (None, None) is the absent pair.
None == <<>>
Val(x) == <<x>>
Absent == <<None, None>>
Pair(lng, lat) == <<Val(lng), Val(lat)>>
Present(p) == p[1] # None /\ p[2] # None
\* the number held by a component that is not None
Num1(c) == c[1]
Lng(p) == Num1(p[1])
Lat(p) == Num1(p[2])

\* magnitude of the largest coordinate value the inputs range over
MaxCoord == 182

\* Earth bounds of validate_coordinates
LatMax == 90
LngMax == 180

Abs(x) == IF x < 0 THEN -x ELSE x

(***************************************************************************)
(* validate_coordinates: identical in map_converter, map_converter_enhanced*)
(* and map_converter_parallel.  Latitude is checked first, then longitude; *)
(* the arguments are returned as they are.                                 *)
(***************************************************************************)
validate_coordinates_noLng(lng, lat) ==
    IF ~(-LatMax <= lat /\ lat <= LatMax) THEN Absent
    ELSE Pair(lng, lat)

validate_coordinates_half(lng, lat) ==
    IF ~(-LatMax <= lat /\ lat <= LatMax) THEN <<Val(lng), None>>
    ELSE IF ~(-LngMax <= lng /\ lng <= LngMax) THEN <<None, Val(lat)>>
    ELSE Pair(lng, lat)

validate_coordinates_clamp(lng, lat) ==
    IF ~(-LatMax <= lat /\ lat <= LatMax) THEN Absent
    ELSE IF lng > LngMax THEN Pair(LngMax, lat)
    ELSE IF lng < -LngMax THEN Absent
    ELSE Pair(lng, lat)

validate_coordinates(lng, lat) ==
    IF ~(-LatMax <= lat /\ lat <= LatMax) THEN Absent
    ELSE IF ~(-LngMax <= lng /\ lng <= LngMax) THEN Absent
    ELSE Pair(lng, lat)

(***************************************************************************)
(* Strings as token sequences                                              *)
(***************************************************************************)
\* a token that is not a numeric literal
Tok(k) == [k |-> k, v |-> 0, frac |-> FALSE]
\* a numeric literal -?\d+ (frac = FALSE) or -?\d+\.\d+ (frac = TRUE)
Num(v, frac) == [k |-> "num", v |-> v, frac |-> frac]

\* a Python value passed as map_link
Str(s) == [ty |-> "str", s |-> s]
PyNone == [ty |-> "None", s |-> <<>>]
NotAStr == [ty |-> "int", s |-> <<>>]

\* `not map_link or not isinstance(map_link, str)`
Falsy(l) == l.ty # "str" \/ l.s = <<>>

\* token kinds whose text contains "/"
SlashKinds == {"/", "/place/", "/search/", "host", "goo.gl", "google.co.za"}
\* token kinds whose text contains one of the resolver's domains
ShortKinds == {"goo.gl", "google.co.za", "goo.gl-text"}

HasKind(s, K) == \E i \in 1..Len(s) : s[i].k \in K

\* float(match.group(n))
float(t) == t.v

\* does token t match -?\d+\.\d+ (needFrac) or -?\d+(?:\.\d+)? / -?\d+\.?\d*
IsNum(t, needFrac) == t.k = "num" /\ (needFrac => t.frac)

\* urllib.parse.unquote: the only escape of the alphabet is %2C
unquote(s) == [i \in 1..Len(s) |-> IF s[i].k = "%2C" THEN Tok(",") ELSE s[i]]

\* re.search reports the leftmost position at which the pattern matches
NoMatch == <<>>
\* (S is the set of positions where it matches), 0 when it matches nowhere
Leftmost(S) ==
    IF S = {} THEN 0 ELSE CHOOSE i \in S : \A j \in S : i <= j

\* the alternatives of [?&]q= and of [?&]query= (re.IGNORECASE folds case)
QKinds == {"?q=", "&q="}
QueryKinds == {"?query=", "&query="}
AtKinds == {"@"}
\* token kinds whose text contains "&"
AmpKinds == {"&", "&q=", "&query="}

\* <head>(num)<sep>(num) starting at position i
HeadPairAt(s, i, head, sep, needFrac) ==
    /\ i + 3 <= Len(s)
    /\ s[i].k \in head
    /\ IsNum(s[i+1], needFrac)
    /\ s[i+2].k = sep
    /\ IsNum(s[i+3], needFrac)

SearchHeadPair(s, head, sep, needFrac) ==
    LET i == Leftmost({j \in 1..Len(s) : HeadPairAt(s, j, head, sep, needFrac)})
    IN IF i = 0 THEN NoMatch ELSE <<s[i+1], s[i+3]>>

\* first position >= i that does not hold a token of kind k
SkipKind(s, i, k) ==
    CHOOSE j \in i..(Len(s)+1) :
        /\ j = Len(s) + 1 \/ s[j].k # k
        /\ \A m \in i..(j-1) : s[m].k = k

\* /place/[^/]+/@(num),(num) starting at position i: [^/]+ runs up to the
\* next token that contains a slash, which must be the "/" before "@"
PlaceEnd(s, i) ==
    CHOOSE j \in (i+1)..(Len(s)+1) :
        /\ j = Len(s) + 1 \/ s[j].k \in SlashKinds
        /\ \A m \in (i+1)..(j-1) : s[m].k \notin SlashKinds

PlacePairAt(s, i, needFrac) ==
    /\ s[i].k = "/place/"
    /\ LET j == PlaceEnd(s, i)
       IN /\ j >= i + 2
          /\ j + 1 <= Len(s)
          /\ s[j].k = "/"
          /\ HeadPairAt(s, j + 1, AtKinds, ",", needFrac)

SearchPlacePair(s, needFrac) ==
    LET i == Leftmost({j \in 1..Len(s) : PlacePairAt(s, j, needFrac)})
    IN IF i = 0 THEN NoMatch
       ELSE LET j == PlaceEnd(s, i) IN <<s[j+2], s[j+4]>>

\* (num)\s*,\s*(num) starting at position i
BarePairAt(s, i, needFrac) ==
    /\ IsNum(s[i], needFrac)
    /\ LET a == SkipKind(s, i + 1, "sp")
       IN /\ a <= Len(s)
          /\ s[a].k = ","
          /\ LET b == SkipKind(s, a + 1, "sp")
             IN b <= Len(s) /\ IsNum(s[b], needFrac)

SearchBarePair(s, needFrac) ==
    LET i == Leftmost({j \in 1..Len(s) : BarePairAt(s, j, needFrac)})
    IN IF i = 0 THEN NoMatch
       ELSE LET a == SkipKind(s, i + 1, "sp")
                b == SkipKind(s, a + 1, "sp")
            IN <<s[i], s[b]>>

(***************************************************************************)
(* Pattern extraction                                                      *)
(***************************************************************************)
LatLng_swapped(m) == validate_coordinates(float(m[1]), float(m[2]))

\* lat, lng = float(group(1)), float(group(2)); return validate(lng, lat)
LatLng(m) == validate_coordinates(float(m[2]), float(m[1]))

BarePair2_noSwap(m) == validate_coordinates(float(m[2]), float(m[1]))

\* bare pair of map_converter_enhanced / map_converter_parallel (two branches)
BarePair2(m) ==
    LET coord1 == float(m[1])
        coord2 == float(m[2])
    IN IF Abs(coord1) <= LatMax /\ Abs(coord2) <= LngMax
       THEN validate_coordinates(coord2, coord1)
       ELSE IF Abs(coord2) <= LatMax /\ Abs(coord1) <= LngMax
       THEN validate_coordinates(coord1, coord2)
       ELSE Absent

\* bare pair of map_converter (five branches)
BarePair5_lastUnchecked(m) ==
    LET coord1 == float(m[1])
        coord2 == float(m[2])
    IN IF Abs(coord1) <= LatMax /\ Abs(coord2) <= LngMax
       THEN validate_coordinates(coord2, coord1)
       ELSE IF Abs(coord2) <= LatMax /\ Abs(coord1) <= LngMax
       THEN validate_coordinates(coord1, coord2)
       ELSE IF Abs(coord1) <= LatMax
       THEN validate_coordinates(coord2, coord1)
       ELSE IF Abs(coord2) <= LatMax
       THEN validate_coordinates(coord1, coord2)
       ELSE Pair(coord2, coord1)

BarePair5(m) ==
    LET coord1 == float(m[1])
        coord2 == float(m[2])
    IN IF Abs(coord1) <= LatMax /\ Abs(coord2) <= LngMax
       THEN validate_coordinates(coord2, coord1)
       ELSE IF Abs(coord2) <= LatMax /\ Abs(coord1) <= LngMax
       THEN validate_coordinates(coord1, coord2)
       ELSE IF Abs(coord1) <= LatMax
       THEN validate_coordinates(coord2, coord1)
       ELSE IF Abs(coord2) <= LatMax
       THEN validate_coordinates(coord1, coord2)
       ELSE validate_coordinates(coord2, coord1)

\* rules 1..5 of method1_regex_extraction; needFrac is TRUE for the
\* patterns of map_converter_enhanced (\d+\.\d+) and FALSE for those of
\* map_converter_parallel (\d+(?:\.\d+)?); rule 1 is \d+\.?\d* in both
Method1Rules_fallThrough(s, needFrac) ==
    LET m1 == SearchHeadPair(s, QueryKinds, "%2C", FALSE)
        m2 == SearchHeadPair(s, AtKinds, ",", needFrac)
        m3 == SearchHeadPair(s, QKinds, ",", needFrac)
        m4 == SearchPlacePair(s, needFrac)
        m5 == SearchBarePair(unquote(s), needFrac)
    IN IF m1 # NoMatch /\ Present(LatLng(m1)) THEN LatLng(m1)
       ELSE IF m2 # NoMatch /\ Present(LatLng(m2)) THEN LatLng(m2)
       ELSE IF m3 # NoMatch /\ Present(LatLng(m3)) THEN LatLng(m3)
       ELSE IF m4 # NoMatch /\ Present(LatLng(m4)) THEN LatLng(m4)
       ELSE IF m5 # NoMatch THEN BarePair2(m5)
       ELSE Absent

Method1Rules(s, needFrac) ==
    LET m1 == SearchHeadPair(s, QueryKinds, "%2C", FALSE)
        m2 == SearchHeadPair(s, AtKinds, ",", needFrac)
        m3 == SearchHeadPair(s, QKinds, ",", needFrac)
        m4 == SearchPlacePair(s, needFrac)
        m5 == SearchBarePair(unquote(s), needFrac)
    IN IF m1 # NoMatch THEN LatLng(m1)
       ELSE IF m2 # NoMatch THEN LatLng(m2)
       ELSE IF m3 # NoMatch THEN LatLng(m3)
       ELSE IF m4 # NoMatch THEN LatLng(m4)
       ELSE IF m5 # NoMatch THEN BarePair2(m5)
       ELSE Absent

\* map_converter_enhanced.method1_regex_extraction
method1_enhanced(l) == IF Falsy(l) THEN Absent ELSE Method1Rules(l.s, TRUE)

\* map_converter_parallel.method1_regex_extraction
method1_parallel(l) == IF Falsy(l) THEN Absent ELSE Method1Rules(l.s, FALSE)

\* patterns 1..4 of map_converter.extract_coordinates_from_url, applied to
\* the (possibly resolved) link
PatternsMC(s) ==
    LET m1 == SearchHeadPair(s, AtKinds, ",", TRUE)
        m2 == SearchHeadPair(s, QKinds, ",", TRUE)
        m3 == SearchPlacePair(s, TRUE)
        m4 == SearchBarePair(s, TRUE)
    IN IF m1 # NoMatch THEN LatLng(m1)
       ELSE IF m2 # NoMatch THEN LatLng(m2)
       ELSE IF m3 # NoMatch THEN LatLng(m3)
       ELSE IF m4 # NoMatch THEN BarePair5(m4)
       ELSE Absent

(***************************************************************************)
(* Network layers.  Each is a function of the link and of the response the *)
(* environment gives to the one request the layer issues; an exception     *)
(* raised anywhere inside the layer's try block yields (None, None).       *)
(***************************************************************************)
\* an exception leaving the body of a try block
Raised == << <<0, 0, 0>>, <<0, 0, 0>> >>

\* try: <body> except Exception as e: logger.debug(...); return None, None
Try_noCatch(o) == o

Try(o) == IF o = Raised THEN Absent ELSE o

\* the set of layers that logged a failure, after layer k's body ended in b
Logged(c, k, b) == IF b = Raised THEN c \cup {k} ELSE c

\* does the string start with a URL scheme and host; requests.get and
\* driver.get raise on any other string before anything is sent
IsUrl(s) == s # <<>> /\ s[1].k \in {"host", "goo.gl", "google.co.za"}

\* requests.head(...): ok = FALSE when the call raises
HeadResp(ok, url) == [ok |-> ok, url |-> url]

\* `any(domain in map_link for domain in [...])` of method2_url_resolution
IsShortOrRegional(s) == HasKind(s, ShortKinds)
\* `'goo.gl' in map_link or 'maps.app.goo.gl' in map_link` of map_converter
IsGooGl(s) == HasKind(s, {"goo.gl", "goo.gl-text"})

\* method2_url_resolution; the resolved URL goes to the module's own
\* method1: needFrac = TRUE in map_converter_enhanced, FALSE in
\* map_converter_parallel
method2_body(l, resp, needFrac) ==
    IF ~IsShortOrRegional(l.s) THEN Absent
    ELSE IF ~IsUrl(l.s) \/ ~resp.ok THEN Raised
    ELSE IF resp.url # l.s
    THEN IF needFrac THEN method1_enhanced(Str(resp.url)) ELSE method1_parallel(Str(resp.url))
    ELSE Absent

method2_url_resolution(l, resp, needFrac) == Try(method2_body(l, resp, needFrac))

\* requests.get(...) of the scraper: status code, document text and the
\* content attributes of the og:latitude / og:longitude meta tags
\* (Tok("missing") when the tag is not in the document)
GetResp(ok, status, text, latMeta, lngMeta) ==
    [ok |-> ok, status |-> status, text |-> text, latMeta |-> latMeta, lngMeta |-> lngMeta]

\* "center":{"lat":(num),"lng":(num)}
JsonPairAt(s, i) ==
    /\ HeadPairAt(s, i, {"center:{lat:"}, ",lng:", TRUE)
    /\ i + 4 <= Len(s)
    /\ s[i+4].k = "}"

SearchJsonPair(s) ==
    LET i == Leftmost({j \in 1..Len(s) : JsonPairAt(s, j)})
    IN IF i = 0 THEN NoMatch ELSE <<s[i+1], s[i+3]>>

\* method3_html_scraping (the same text in both modules)
method3_body(l, resp) ==
    IF ~IsUrl(l.s) \/ ~resp.ok THEN Raised
    ELSE IF resp.status # 200 THEN Absent
    ELSE LET a == SearchHeadPair(resp.text, AtKinds, ",", TRUE)
             j == SearchJsonPair(resp.text)
         IN IF a # NoMatch THEN LatLng(a)
            ELSE IF j # NoMatch THEN LatLng(j)
            ELSE IF resp.latMeta.k # "missing" /\ resp.lngMeta.k # "missing"
            THEN IF resp.latMeta.k = "num" /\ resp.lngMeta.k = "num"
                 THEN validate_coordinates(float(resp.lngMeta), float(resp.latMeta))
                 ELSE Raised    \* float(content) raises ValueError
            ELSE Absent

method3_html_scraping(l, resp) == Try(method3_body(l, resp))

\* the text captured by ([^&]+) after the leftmost [?&]query=
RunEnd(s, i, Stop) ==
    CHOOSE j \in (i+1)..(Len(s)+1) :
        /\ j = Len(s) + 1 \/ s[j].k \in Stop
        /\ \A m \in (i+1)..(j-1) : s[m].k \notin Stop

RunAfter(s, Heads, Stop) ==
    LET i == Leftmost({j \in 1..Len(s) : s[j].k \in Heads /\ RunEnd(s, j, Stop) >= j + 2})
    IN IF i = 0 THEN <<>> ELSE SubSeq(s, i + 1, RunEnd(s, i, Stop) - 1)

\* re.match(r'^-?\d+\.?\d*,-?\d+\.?\d*$', query)
IsCoordinateText(q) ==
    Len(q) = 3 /\ q[1].k = "num" /\ q[2].k = "," /\ q[3].k = "num"

\* the Places Text Search answer: ok = FALSE when the request or .json()
\* raises; shaped = FALSE when results[0] lacks geometry.location.{lat,lng}
ApiResp(ok, status, n, shaped, lat, lng) ==
    [ok |-> ok, status |-> status, n |-> n, shaped |-> shaped, lat |-> lat, lng |-> lng]

\* the search text method4 would send, <<>> when it finds none;
\* skip = TRUE when the query= text is a coordinate pair
Method4Query(s) ==
    LET q == unquote(RunAfter(s, QueryKinds, AmpKinds))
        pl == unquote(RunAfter(s, {"/place/"}, SlashKinds \cup AtKinds))
        se == unquote(RunAfter(s, {"/search/"}, SlashKinds \cup AtKinds))
    IN IF q # <<>> THEN [skip |-> IsCoordinateText(q), text |-> q]
       ELSE IF pl # <<>> THEN [skip |-> FALSE, text |-> pl]
       ELSE [skip |-> FALSE, text |-> se]

Method4Requests_anyKey(l, key) ==
    ~Method4Query(l.s).skip /\ Method4Query(l.s).text # <<>>

\* does method4_google_places_api issue its request
Method4Requests(l, key) ==
    key /\ ~Method4Query(l.s).skip /\ Method4Query(l.s).text # <<>>

\* method4_google_places_api (the same logic in both modules)
method4_body(l, key, resp) ==
    IF ~Method4Requests(l, key) THEN Absent
    ELSE IF ~resp.ok THEN Raised
    ELSE IF resp.status = "OK" /\ resp.n >= 1
    THEN IF resp.shaped THEN validate_coordinates(resp.lng, resp.lat)
         ELSE Raised    \* result['geometry']['location'] raises KeyError
    ELSE Absent

method4_google_places_api(l, key, resp) == Try(method4_body(l, key, resp))

\* what the headless browser shows: ok = FALSE when the driver cannot be
\* started, the page load times out or anything else raises
PageResp(ok, url, source) == [ok |-> ok, url |-> url, source |-> source]

\* map_converter_parallel.method5_selenium_scraping
method5_body(l, resp) ==
    IF ~IsUrl(l.s) \/ ~resp.ok THEN Raised
    ELSE LET a == SearchHeadPair(resp.url, AtKinds, ",", TRUE)
             b == SearchHeadPair(resp.source, AtKinds, ",", TRUE)
         IN IF a # NoMatch THEN LatLng(a)
            ELSE IF b # NoMatch THEN LatLng(b)
            ELSE Absent

method5_selenium_scraping(l, resp) == Try(method5_body(l, resp))

(***************************************************************************)
(* Inputs and environment                                                  *)
(***************************************************************************)
Coords == (-MaxCoord)..MaxCoord

\* values of the numeric literals in links: both boundaries, an ordinary
\* latitude, a value that is only a longitude, and out-of-range values
UrlVals == {-LatMax, 45, LatMax + 1, 120, LngMax, LngMax + 1}
Lits == {Num(v, f) : v \in UrlVals, f \in BOOLEAN}

Host == Tok("host")      \* "https://www.google.com/maps"
Short == Tok("goo.gl")   \* "https://goo.gl/maps" or "https://maps.app.goo.gl"
Name == Tok("name")      \* free text without digits and punctuation
\* the characters "goo.gl" inside a query value, not in the host
GooGlText == Tok("goo.gl-text")

\* the coordinate-bearing part of a link
Cores(a, b) ==
    { <<Tok("@"), a, Tok(","), b>>,
      <<Tok("@"), a, Tok("%2C"), b>>,
      <<Tok("?q="), a, Tok(","), b>>,
      <<Tok("?query="), a, Tok("%2C"), b>>,
      <<Tok("?query="), a, Tok(","), b>>,
      <<Tok("/place/"), Name, Tok("/"), Tok("@"), a, Tok(","), b>>,
      <<Tok("/"), a, Tok("sp"), Tok(","), b>> }

\* what may follow the pair: nothing, or a zoom ",17z"
Tails == { <<>>, <<Tok(","), Num(17, FALSE), Tok("z")>> }

CoordLinks ==
    { <<h>> \o c \o t : h \in {Host, Short},
                        c \in UNION { Cores(a, b) : a \in Lits, b \in Lits },
                        t \in Tails }

\* links without a coordinate pair
TextLinks ==
    { <<Host, Tok("/place/"), Name>>,
      <<Host, Tok("/search/"), Name>>,
      <<Host, Tok("?query="), Name>>,
      <<Host, Name>>,
      <<Short, Name>>,
      <<Tok("google.co.za"), Tok("/place/"), Name>>,
      <<Host, Tok("?q="), GooGlText>>,
      <<Host, Tok("/search/"), Num(120, TRUE), Tok(","), Num(150, TRUE)>>,
      <<Host, Tok("/place/"), Num(120, TRUE), Tok(","), Num(150, TRUE), Tok("/")>>,
      <<Tok("sp")>>,
      <<Num(45, TRUE), Tok(","), Num(120, TRUE)>>,
      <<Num(120, TRUE), Tok(","), Num(150, TRUE)>> }

SeqLinks == {Str(s) : s \in CoordLinks \cup TextLinks} \cup {Str(<<>>), PyNone, NotAStr}

\* the links given to the parallel orchestrator
ParLinks ==
    { Str(<<Host, Tok("@"), Num(45, TRUE), Tok(","), Num(120, TRUE)>>),
      Str(<<Host, Tok("@"), Num(45, FALSE), Tok(","), Num(120, FALSE)>>),
      Str(<<Short, Tok("@"), Num(LatMax + 1, TRUE), Tok(","), Num(120, TRUE)>>),
      Str(<<Short, Name>>),
      Str(<<Host, Tok("/place/"), Name>>),
      Str(<<Host, Tok("/search/"), Num(45, TRUE), Tok(","), Num(120, TRUE)>>),
      Str(<<Tok("sp")>>),
      Str(<<>>), PyNone }

\* final URLs a HEAD request may be redirected to
ResolvedUrls ==
    { <<Host, Tok("@"), Num(10, TRUE), Tok(","), Num(20, TRUE)>>,
      <<Host, Tok("@"), Num(LatMax + 1, TRUE), Tok(","), Num(20, TRUE)>>,
      <<Host, Name>> }

HeadResps(l) ==
    {HeadResp(FALSE, <<>>), HeadResp(TRUE, l.s)} \cup {HeadResp(TRUE, u) : u \in ResolvedUrls}

Missing == Tok("missing")
GetResps ==
    { GetResp(FALSE, 0, <<>>, Missing, Missing),
      GetResp(TRUE, 404, <<>>, Missing, Missing),
      GetResp(TRUE, 200, <<Name, Tok("@"), Num(11, TRUE), Tok(","), Num(21, TRUE)>>, Missing, Missing),
      GetResp(TRUE, 200, <<Name, Tok("@"), Num(11, TRUE), Tok(","), Num(LngMax + 1, TRUE)>>, Missing, Missing),
      GetResp(TRUE, 200, <<Tok("center:{lat:"), Num(12, TRUE), Tok(",lng:"), Num(22, TRUE), Tok("}")>>,
              Num(13, TRUE), Num(23, TRUE)),
      GetResp(TRUE, 200, <<Name>>, Num(13, FALSE), Num(23, FALSE)),
      GetResp(TRUE, 200, <<Name>>, Num(-LatMax - 1, FALSE), Num(23, FALSE)),
      GetResp(TRUE, 200, <<Name>>, Name, Num(23, FALSE)),
      GetResp(TRUE, 200, <<Name>>, Num(13, FALSE), Missing) }

ApiResps ==
    { ApiResp(FALSE, "", 0, FALSE, 0, 0),
      ApiResp(TRUE, "OK", 1, TRUE, 14, 24),
      ApiResp(TRUE, "OK", 1, TRUE, 14, -LngMax - 1),
      ApiResp(TRUE, "OK", 1, FALSE, 0, 0),
      ApiResp(TRUE, "OK", 0, FALSE, 0, 0),
      ApiResp(TRUE, "ZERO_RESULTS", 0, FALSE, 0, 0),
      ApiResp(TRUE, "OVER_QUERY_LIMIT", 0, FALSE, 0, 0) }

PageResps ==
    { PageResp(FALSE, <<>>, <<>>),
      PageResp(TRUE, <<Host, Tok("@"), Num(15, TRUE), Tok(","), Num(25, TRUE)>>, <<Name>>),
      PageResp(TRUE, <<Host, Name>>, <<Name, Tok("@"), Num(LatMax + 1, TRUE), Tok(","), Num(26, TRUE)>>),
      PageResp(TRUE, <<Host, Name>>, <<Name>>) }

(***************************************************************************)
(* State                                                                   *)
(***************************************************************************)
Layers == 1..4          \* the layers of the sequential orchestrator
Methods == 1..5         \* 'method1' .. 'method5', in the order of the dict
\* no value yet: the call has not returned, the layer was not invoked
NotRun == << <<0, 0>>, <<0, 0>> >>
NoNet == [head |-> 0, get |-> 0, api |-> 0, browser |-> 0]
Sent(n, kind, issued) == IF issued THEN [n EXCEPT ![kind] = @ + 1] ELSE n
Requests(n) == n.head + n.get + n.api + n.browser

Idle ==
    /\ vLng = 0 /\ vLat = 0 /\ vOut = NotRun

\* no row loop runs
RowsIdle ==
    /\ caller = "none" /\ table = <<>> /\ idx = 0 /\ rpc = "none"
    /\ attempt = 0 /\ got = NotRun
    /\ counters = [successful |-> 0, failed |-> 0, skipped |-> 0]

BareIdle ==
    /\ bc1 = 0 /\ bc2 = 0 /\ bOut = <<>>

\* the web application is not started
WebIdle ==
    /\ app = "none" /\ now = 0 /\ store = <<>> /\ used = {} /\ uploads = {} /\ outputs = {}
    /\ lock = <<>> /\ rq = <<>> /\ dl = <<>>

AppIdle == RowsIdle /\ BareIdle /\ WebIdle

InitCall ==
    /\ pc = "start"
    /\ ret = NotRun
    /\ calls = <<>>
    /\ outs = [k \in Layers |-> NotRun]
    /\ net = NoNet
    /\ apiKey \in BOOLEAN
    /\ caught = {}
    /\ fut = [m \in Methods |-> "idle"]
    /\ fres = [m \in Methods |-> Absent]
    /\ results = [m \in Methods |-> Absent]
    /\ timedOut = FALSE
    /\ best = NotRun

Init ==
    /\ Idle /\ AppIdle
    /\ engine \in {"mc", "enh", "par"}
    /\ link \in (IF engine = "par" THEN ParLinks ELSE SeqLinks)
    /\ InitCall

parVars == <<fut, fres, results, timedOut, best>>
rowVars == <<caller, table, idx, rpc, attempt, got, counters>>
bareVars == <<bc1, bc2, bOut>>
webVars == <<app, now, store, used, uploads, outputs, lock, rq, dl>>
\* the callers of the engine: row loops and web application
appVars == <<rowVars, bareVars, webVars>>
engVars == <<engine, link, pc, ret, calls, outs, net, apiKey, caught>>
valVars == <<vLng, vLat, vOut>>

(***************************************************************************)
(* map_converter.extract_coordinates_from_url: one layer, short links are  *)
(* resolved before any pattern is tried                                    *)
(***************************************************************************)
\* the string the patterns are applied to
ResolvedLinkMC(l, resp) ==
    IF IsGooGl(l.s) /\ resp.ok THEN resp.url ELSE l.s

\* the inner try around requests.head: Raised when the request fails
ResolveMC(l, resp) ==
    IF IsGooGl(l.s) /\ ~resp.ok THEN Raised ELSE Absent

MCCall ==
    /\ engine = "mc" /\ pc = "start"
    /\ IF Falsy(link)
       THEN /\ ret' = Absent
            /\ pc' = "rejected"
            /\ net' = net
            /\ caught' = caught
       ELSE \E resp \in HeadResps(link) :
                LET r == PatternsMC(ResolvedLinkMC(link, resp))
                IN /\ ret' = r
                   /\ pc' = IF Present(r) THEN "done" ELSE "allfailed"
                   /\ net' = Sent(net, "head", IsGooGl(link.s))
                   /\ caught' = Logged(caught, 2, ResolveMC(link, resp))
    /\ UNCHANGED <<engine, link, calls, outs, apiKey>>
    /\ UNCHANGED parVars /\ UNCHANGED valVars /\ UNCHANGED appVars

(***************************************************************************)
(* map_converter_enhanced.extract_coordinates_from_url: four layers        *)
(***************************************************************************)
PcOf(k) == <<"m1", "m2", "m3", "m4">>[k]

\* what the orchestrator does with the pair o that layer k returned:
\* `if lng is not None and lat is not None: return lng, lat`, else go on
AfterLayer_noReturn(k, o) ==
    IF k < 4 THEN [pc |-> PcOf(k + 1), ret |-> NotRun]
    ELSE IF Present(o) THEN [pc |-> "done", ret |-> o]
    ELSE [pc |-> "allfailed", ret |-> Absent]

AfterLayer_dropLast(k, o) ==
    IF Present(o) /\ k < 4 THEN [pc |-> "done", ret |-> o]
    ELSE IF k < 4 THEN [pc |-> PcOf(k + 1), ret |-> NotRun]
    ELSE [pc |-> "allfailed", ret |-> Absent]

AfterLayer(k, o) ==
    IF Present(o) THEN [pc |-> "done", ret |-> o]
    ELSE IF k < 4 THEN [pc |-> PcOf(k + 1), ret |-> NotRun]
    ELSE [pc |-> "allfailed", ret |-> Absent]

\* an exception that leaves layer k leaves the orchestrator too: it has
\* no try block of its own
LayerReturned(k, o) ==
    /\ calls' = Append(calls, k)
    /\ outs' = [outs EXCEPT ![k] = o]
    /\ pc' = IF o = Raised THEN "raised" ELSE AfterLayer(k, o).pc
    /\ ret' = IF o = Raised THEN NotRun ELSE AfterLayer(k, o).ret

EnhStart ==
    /\ engine = "enh" /\ pc = "start"
    /\ IF Falsy(link)
       THEN ret' = Absent /\ pc' = "rejected"
       ELSE ret' = ret /\ pc' = PcOf(1)
    /\ UNCHANGED <<engine, link, calls, outs, net, apiKey, caught>>
    /\ UNCHANGED parVars /\ UNCHANGED valVars /\ UNCHANGED appVars

EnhMethod1 ==
    /\ engine = "enh" /\ pc = PcOf(1)
    /\ LayerReturned(1, method1_enhanced(link))
    /\ UNCHANGED <<engine, link, net, apiKey, caught>>
    /\ UNCHANGED parVars /\ UNCHANGED valVars /\ UNCHANGED appVars

EnhMethod2 ==
    /\ engine = "enh" /\ pc = PcOf(2)
    /\ \E resp \in HeadResps(link) :
           /\ LayerReturned(2, method2_url_resolution(link, resp, TRUE))
           /\ caught' = Logged(caught, 2, method2_body(link, resp, TRUE))
    /\ net' = Sent(net, "head", IsShortOrRegional(link.s))
    /\ UNCHANGED <<engine, link, apiKey>>
    /\ UNCHANGED parVars /\ UNCHANGED valVars /\ UNCHANGED appVars

EnhMethod3 ==
    /\ engine = "enh" /\ pc = PcOf(3)
    /\ \E resp \in GetResps :
           /\ LayerReturned(3, method3_html_scraping(link, resp))
           /\ caught' = Logged(caught, 3, method3_body(link, resp))
    /\ net' = Sent(net, "get", IsUrl(link.s))
    /\ UNCHANGED <<engine, link, apiKey>>
    /\ UNCHANGED parVars /\ UNCHANGED valVars /\ UNCHANGED appVars

EnhMethod4 ==
    /\ engine = "enh" /\ pc = PcOf(4)
    /\ \E resp \in ApiResps :
           /\ LayerReturned(4, method4_google_places_api(link, apiKey, resp))
           /\ caught' = Logged(caught, 4, method4_body(link, apiKey, resp))
    /\ net' = Sent(net, "api", Method4Requests(link, apiKey))
    /\ UNCHANGED <<engine, link, apiKey>>
    /\ UNCHANGED parVars /\ UNCHANGED valVars /\ UNCHANGED appVars

(***************************************************************************)
(* map_converter_parallel.extract_coordinates_parallel                     *)
(*                                                                         *)
(* The calling thread submits the five methods to a pool of five workers   *)
(* and iterates as_completed(..., timeout=20).  as_completed yields a      *)
(* future once it is done and raises TimeoutError when the bound has       *)
(* passed and no finished future is left to yield.  Leaving the `with`     *)
(* block calls executor.shutdown(wait=True), which joins every worker.     *)
(***************************************************************************)
Running == {m \in Methods : fut[m] = "running"}
Finished == {m \in Methods : fut[m] = "done"}

ParStart ==
    /\ engine = "par" /\ pc = "start"
    /\ IF Falsy(link)
       THEN pc' = "returned" /\ fut' = fut
       ELSE pc' = "iter" /\ fut' = [m \in Methods |-> "running"]
    /\ UNCHANGED <<engine, link, ret, calls, outs, net, apiKey, caught, fres, results, timedOut, best>>
    /\ UNCHANGED valVars /\ UNCHANGED appVars

\* a worker runs its method to the end
\* (o is what it returns, b how the body of its try block ended)
Finish(m, o, b, kind, issued) ==
    /\ fut[m] = "running"
    /\ fut' = [fut EXCEPT ![m] = "done"]
    /\ fres' = [fres EXCEPT ![m] = o]
    /\ caught' = Logged(caught, m, b)
    /\ net' = Sent(net, kind, issued)
    /\ UNCHANGED <<engine, link, pc, ret, calls, outs, apiKey, results, timedOut, best>>
    /\ UNCHANGED valVars /\ UNCHANGED appVars

ParMethod1 ==
    /\ engine = "par"
    /\ Finish(1, method1_parallel(link), method1_parallel(link), "head", FALSE)

ParMethod2 ==
    /\ engine = "par"
    /\ \E resp \in HeadResps(link) :
           Finish(2, method2_url_resolution(link, resp, FALSE),
                  method2_body(link, resp, FALSE),
                  "head", IsShortOrRegional(link.s))

ParMethod3 ==
    /\ engine = "par"
    /\ \E resp \in GetResps :
           Finish(3, method3_html_scraping(link, resp), method3_body(link, resp),
                  "get", IsUrl(link.s))

ParMethod4 ==
    /\ engine = "par"
    /\ \E resp \in ApiResps :
           Finish(4, method4_google_places_api(link, apiKey, resp),
                  method4_body(link, apiKey, resp),
                  "api", Method4Requests(link, apiKey))

ParMethod5 ==
    /\ engine = "par"
    /\ \E resp \in PageResps :
           Finish(5, method5_selenium_scraping(link, resp), method5_body(link, resp),
                  "browser", IsUrl(link.s) /\ resp.ok)

\* for future in as_completed(...): results[name] = future.result(timeout=5)
ParCollect ==
    /\ engine = "par" /\ pc = "iter"
    /\ \E m \in Finished :
           /\ results' = [results EXCEPT ![m] = fres[m]]
           /\ fut' = [fut EXCEPT ![m] = "yielded"]
    /\ UNCHANGED <<engine, link, pc, ret, calls, outs, net, apiKey, caught, fres, timedOut, best>>
    /\ UNCHANGED valVars /\ UNCHANGED appVars

\* the iteration ends: every future was yielded
ParExhausted ==
    /\ engine = "par" /\ pc = "iter"
    /\ \A m \in Methods : fut[m] = "yielded"
    /\ pc' = "exit"
    /\ UNCHANGED <<engine, link, ret, calls, outs, net, apiKey, caught, fut, fres, results, timedOut, best>>
    /\ UNCHANGED valVars /\ UNCHANGED appVars

\* the except TimeoutError handler: an entry of a future that is not done
\* is set to (None, None) when it is (None, None)
OnTimeout_reset(r, f, fr) ==
    [m \in Methods |-> Absent]

OnTimeout(r, f, fr) ==
    [m \in Methods |-> IF f[m] = "running" /\ r[m] = Absent THEN Absent ELSE r[m]]

\* as_completed raises TimeoutError: the 20 s are over, a future is still
\* running and none is waiting to be yielded
ParTimeout ==
    /\ engine = "par" /\ pc = "iter"
    /\ Running # {}
    /\ Finished = {}
    /\ timedOut' = TRUE
    /\ results' = OnTimeout(results, fut, fres)
    /\ pc' = "exit"
    /\ UNCHANGED <<engine, link, ret, calls, outs, net, apiKey, caught, fut, fres, best>>
    /\ UNCHANGED valVars /\ UNCHANGED appVars

\* ThreadPoolExecutor.__exit__ -> shutdown(wait=True): the calling thread
\* blocks in join() as long as a worker is running
ExitBlocks == Running # {}

ParExit ==
    /\ engine = "par" /\ pc = "exit"
    /\ pc' = IF ExitBlocks THEN "joining" ELSE "returned"
    /\ UNCHANGED <<engine, link, ret, calls, outs, net, apiKey, caught, fut, fres, results, timedOut, best>>
    /\ UNCHANGED valVars /\ UNCHANGED appVars

ParJoined ==
    /\ engine = "par" /\ pc = "joining"
    /\ Running = {}
    /\ pc' = "returned"
    /\ UNCHANGED <<engine, link, ret, calls, outs, net, apiKey, caught, fut, fres, results, timedOut, best>>
    /\ UNCHANGED valVars /\ UNCHANGED appVars

(***************************************************************************)
(* The callers' choice of one pair out of the results dict                 *)
(***************************************************************************)
\* smallest method in S
MinOf(S) == CHOOSE m \in S : \A n \in S : m <= n
MaxOf(S) == CHOOSE m \in S : \A n \in S : m >= n

\* map_converter_parallel.process_excel_file: method1, else the first of
\* method2..method5 whose longitude is not None
BestExcel_last(r) ==
    LET S == {m \in Methods : r[m][1] # None}
    IN IF S = {} THEN r[5] ELSE r[MaxOf(S)]

BestExcel(r) ==
    IF r[1][1] # None THEN r[1]
    ELSE LET S == {m \in 2..5 : r[m][1] # None}
         IN IF S = {} THEN r[5] ELSE r[MinOf(S)]

\* flask_app.process_file: the first entry of results.items() with both
\* components not None; the dict keeps its insertion order method1..method5
BestFlask(r) ==
    LET S == {m \in Methods : r[m][1] # None /\ r[m][2] # None}
    IN IF S = {} THEN Absent ELSE r[MinOf(S)]

ParSelectExcel ==
    /\ engine = "par" /\ pc = "returned"
    /\ best' = BestExcel(results)
    /\ pc' = "selected_excel"
    /\ UNCHANGED <<engine, link, ret, calls, outs, net, apiKey, caught, fut, fres, results, timedOut>>
    /\ UNCHANGED valVars /\ UNCHANGED appVars

ParSelectFlask ==
    /\ engine = "par" /\ pc = "returned"
    /\ best' = BestFlask(results)
    /\ pc' = "selected_flask"
    /\ UNCHANGED <<engine, link, ret, calls, outs, net, apiKey, caught, fut, fres, results, timedOut>>
    /\ UNCHANGED valVars /\ UNCHANGED appVars

Next ==
    \/ MCCall
    \/ EnhStart \/ EnhMethod1 \/ EnhMethod2 \/ EnhMethod3 \/ EnhMethod4
    \/ ParStart
    \/ ParMethod1 \/ ParMethod2 \/ ParMethod3 \/ ParMethod4 \/ ParMethod5
    \/ ParCollect \/ ParExhausted \/ ParTimeout \/ ParExit \/ ParJoined
    \/ ParSelectExcel \/ ParSelectFlask

Spec == Init /\ [][Next]_vars

(***************************************************************************)
(* A direct call of validate_coordinates                                   *)
(***************************************************************************)
InitValidate ==
    /\ vLng \in Coords /\ vLat \in Coords /\ vOut = NotRun
    /\ AppIdle
    /\ engine = "validate"
    /\ link = PyNone
    /\ InitCall
    /\ apiKey = FALSE

CallValidate ==
    /\ engine = "validate" /\ pc = "start"
    /\ vOut' = validate_coordinates(vLng, vLat)
    /\ pc' = "done"
    /\ UNCHANGED <<vLng, vLat, engine, link, ret, calls, outs, net, apiKey, caught>>
    /\ UNCHANGED parVars /\ UNCHANGED appVars

NextValidate == CallValidate

SpecValidate == InitValidate /\ [][NextValidate]_vars

(***************************************************************************)
(* Properties                                                              *)
(***************************************************************************)
\* a pair whose two components are numbers
IsValue(p) == Len(p[1]) = 1 /\ Len(p[2]) = 1
InEarthRange(p) ==
    /\ -90 <= Lat(p) /\ Lat(p) <= 90
    /\ -180 <= Lng(p) /\ Lng(p) <= 180

\* every pair some call, layer or future has returned in the current state
ReturnedPairs ==
    {ret, best} \cup {outs[k] : k \in Layers}
                \cup {fres[m] : m \in Methods} \cup {results[m] : m \in Methods}

SeqTerminal == pc \in {"done", "allfailed"}
ParSelected == pc \in {"selected_excel", "selected_flask"}

\* C1: every pair returned as present, by the single-layer engine, by any
\* layer of the sequential orchestrator, by any method of the parallel
\* orchestrator and as the caller's best pair, has its latitude in
\* [-90, 90] and its longitude in [-180, 180].
C1_PresentPairsInRange ==
    \A p \in ReturnedPairs : IsValue(p) => InEarthRange(p)

\* the scraper found a pair after the pattern layer and the resolver failed
C1_Witness ==
    /\ engine = "enh" /\ pc = "done"
    /\ calls = <<1, 2, 3>>
    /\ IsValue(ret) /\ net.get = 1

\* C2: every returned pair has both components present or both absent.
C2_AbsenceIsPaired ==
    \A p \in ReturnedPairs : (p[1] = None) <=> (p[2] = None)

\* a parallel call returned after the bound with one entry present and the
\* entry of a method whose match was out of range absent
C2_Witness ==
    /\ engine = "par" /\ pc = "returned" /\ timedOut
    /\ fut[1] = "yielded" /\ results[1] = Absent
    /\ HasKind(link.s, AtKinds)
    /\ \E m \in Methods : IsValue(results[m])

\* C3: validate_coordinates(lng, lat) returns (lng, lat) itself exactly when
\* -90 <= lat <= 90 and -180 <= lng <= 180, and (None, None) otherwise.
C3_ValidateExact ==
    (engine = "validate" /\ pc = "done") =>
        IF vLat \in (-90)..90 /\ vLng \in (-180)..180
        THEN vOut = <<Val(vLng), Val(vLat)>>
        ELSE vOut = Absent

\* the boundary pair (180, 90) is returned unchanged
C3_Witness ==
    /\ engine = "validate" /\ pc = "done"
    /\ vLng = 180 /\ vLat = 90
    /\ vOut = Pair(180, 90)

\* C4: the sequential orchestrator invokes the layers in the order 1, 2, 3,
\* 4; a layer is invoked only when every earlier layer has returned the
\* absent pair, and after a layer returned a present pair none is invoked.
C4_StrictlySequential ==
    engine = "enh" =>
        /\ Len(calls) <= 4
        /\ \A i \in 1..Len(calls) :
               /\ calls[i] = i
               /\ \A j \in 1..(i-1) : outs[j] = Absent
        /\ \A k \in Layers :
               /\ pc = PcOf(k) => Len(calls) = k - 1
               /\ (k <= Len(calls) /\ IsValue(outs[k])) => (Len(calls) = k /\ pc = "done")
               /\ k > Len(calls) => outs[k] = NotRun

\* the scraper succeeded and the place search was never invoked, although
\* it would have issued a request
C4_Witness ==
    /\ engine = "enh" /\ pc = "done"
    /\ calls = <<1, 2, 3>> /\ outs[4] = NotRun
    /\ Method4Requests(link, apiKey)

\* C5: a call of the sequential orchestrator on a non-empty string ends
\* either in Done, returning the pair of the only layer that returned a
\* present pair, all lower layers having returned absent, or in AllFailed,
\* returning (None, None) after all four layers returned absent; no layer
\* is invoked twice.
C5_TerminalStates ==
    (engine = "enh" /\ ~Falsy(link)) =>
        /\ pc \in {"start", "m1", "m2", "m3", "m4", "done", "allfailed"}
        /\ \A i, j \in 1..Len(calls) : calls[i] = calls[j] => i = j
        /\ pc = "done" =>
               \E k \in Layers :
                   /\ IsValue(outs[k]) /\ ret = outs[k]
                   /\ \A j \in Layers : j < k => outs[j] = Absent
                   /\ \A j \in Layers : j > k => outs[j] = NotRun
        /\ pc = "allfailed" =>
               /\ ret = Absent
               /\ calls = <<1, 2, 3, 4>>
               /\ \A k \in Layers : outs[k] = Absent
        /\ ~SeqTerminal => ret = NotRun

\* the place search, the last layer, produced the pair
C5_Witness ==
    /\ engine = "enh" /\ pc = "done"
    /\ calls = <<1, 2, 3, 4>>
    /\ ret = outs[4] /\ IsValue(ret)

\* C6: when a pattern rule alone extracts a valid pair from the input,
\* map_converter.extract_coordinates_from_url issues no network request
\* and returns that pair, also for an input with a short-link domain.
C6_LocalMatchPreferred ==
    (engine = "mc" /\ SeqTerminal /\ IsValue(PatternsMC(link.s))) =>
        /\ Requests(net) = 0
        /\ ret = PatternsMC(link.s)

\* C7: the best pair is the entry of the lowest-numbered method whose entry
\* is present, and absent when no entry is present, whatever the order in
\* which the methods finished and were collected.
C7_BestIsLowestPresent ==
    (engine = "par" /\ ParSelected) =>
        LET S == {m \in Methods : IsValue(results[m])}
        IN IF S = {} THEN best = Absent
           ELSE \E m \in S : best = results[m] /\ \A n \in S : m <= n

\* method1 is absent, two later methods are present, the lower one is chosen
C7_Witness ==
    /\ engine = "par" /\ ParSelected
    /\ results[1] = Absent
    /\ \E m, n \in Methods :
           /\ m < n /\ IsValue(results[m]) /\ IsValue(results[n])
           /\ results[m] # results[n]
           /\ best = results[m]

\* C8: once the bound is reached while a method is still running, the
\* calling thread does not wait for that method again.
C8_NoWaitAfterBound ==
    timedOut => pc # "joining"

\* C9: when extract_coordinates_parallel has returned, a method that had not
\* finished when the bound expired maps to (None, None), whatever it
\* produced later; a method that finished before maps to the pair it
\* returned; no method issued its request twice.
C9_LateResultsDiscarded ==
    (engine = "par" /\ ~Falsy(link) /\ (pc = "returned" \/ ParSelected)) =>
        /\ \A m \in Methods :
               /\ fut[m] \in {"done", "yielded"}
               /\ fut[m] = "yielded" => results[m] = fres[m]
               /\ fut[m] = "done" => (timedOut /\ results[m] = Absent)
        /\ ~timedOut => \A m \in Methods : fut[m] = "yielded"
        /\ net.head <= 1 /\ net.get <= 1 /\ net.api <= 1 /\ net.browser <= 1

\* after the bound a method produced a pair that is not in the mapping,
\* next to a method collected in time
C9_Witness ==
    /\ engine = "par" /\ pc = "returned" /\ timedOut
    /\ \E m \in Methods : fut[m] = "done" /\ IsValue(fres[m]) /\ results[m] = Absent
    /\ \E n \in Methods : fut[n] = "yielded" /\ IsValue(results[n])

\* C10: for an input that the pattern layer resolves, both sequential
\* orchestrators and the parallel best pair return the pair of method1 of
\* map_converter_parallel.
C10_PriorityDeterminism ==
    IsValue(method1_parallel(link)) =>
        /\ (engine \in {"mc", "enh"} /\ SeqTerminal) => ret = method1_parallel(link)
        /\ (engine = "par" /\ ParSelected /\ fut[1] = "yielded") => best = method1_parallel(link)

\* the inputs the callers treat as "no link": None, a non-string, the
\* empty string and a string of whitespace only
\* (`str(map_link).strip() == ''` of process_excel_file)
AbsentInput(l) == l.ty # "str" \/ \A i \in 1..Len(l.s) : l.s[i].k = "sp"

\* C11: for an absent input (None, a non-string, the empty string or a
\* whitespace-only string) every entry point returns (None, None) at once:
\* no layer is invoked, no method is submitted to the pool, no network
\* request is issued.
C11_AbsentInputNotAttempted ==
    (engine \in {"mc", "enh", "par"} /\ AbsentInput(link)) =>
        /\ pc \in {"start", "rejected", "returned", "selected_excel", "selected_flask"}
        /\ pc = "rejected" => ret = Absent
        /\ calls = <<>>
        /\ \A m \in Methods : fut[m] = "idle" /\ results[m] = Absent
        /\ Requests(net) = 0

\* layers of the sequential orchestrator invoked so far
Invoked == {calls[i] : i \in 1..Len(calls)}

\* C12: no exception leaves a layer or an entry point.  A layer whose
\* request or parsing failed (its except clause ran) has returned
\* (None, None), the sequential orchestrator has gone on to the next layer
\* (or, after the last one, has returned (None, None)), and the
\* single-layer engine has gone on with the unresolved link.
C12_FailuresStayInsideLayer ==
    /\ pc # "raised"
    /\ ret # Raised
    /\ \A k \in Layers : outs[k] # Raised
    /\ \A m \in Methods : fres[m] # Raised /\ results[m] # Raised
    /\ engine = "enh" =>
           \A k \in caught :
               /\ k \in Invoked
               /\ outs[k] = Absent
               /\ k < 4 => (pc = PcOf(k + 1) \/ (k + 1) \in Invoked)
               /\ k = 4 => (pc = "allfailed" /\ ret = Absent)
    /\ engine = "par" =>
           \A m \in caught : fut[m] # "running" /\ fres[m] = Absent
    /\ (engine = "mc" /\ caught # {}) =>
           /\ pc \in {"done", "allfailed"}
           /\ ret = PatternsMC(link.s)

\* the resolver, the scraper and the place search all failed on one link
C12_Witness ==
    /\ engine = "enh"
    /\ caught = {2, 3, 4}
    /\ pc = "allfailed"
    /\ ret = Absent

\* the match of rule n of method1_regex_extraction on s, in source order:
\* query=..%2C.., @.., q=.., /place/../@.., bare pair
M1Match(s, n, needFrac) ==
    CASE n = 1 -> SearchHeadPair(s, QueryKinds, "%2C", FALSE)
      [] n = 2 -> SearchHeadPair(s, AtKinds, ",", needFrac)
      [] n = 3 -> SearchHeadPair(s, QKinds, ",", needFrac)
      [] n = 4 -> SearchPlacePair(s, needFrac)
      [] n = 5 -> SearchBarePair(unquote(s), needFrac)

\* the first rule that matches s, 0 when none does
M1First(s, needFrac) == Leftmost({n \in 1..5 : M1Match(s, n, needFrac) # NoMatch})

\* is lat a latitude and lng a longitude
InRange(lat, lng) == -90 <= lat /\ lat <= 90 /\ -180 <= lng /\ lng <= 180

\* what C13 says of the pair o the pattern layer returned for string s
FirstRuleDecides(s, needFrac, o) ==
    LET n == M1First(s, needFrac)
        m == M1Match(s, n, needFrac)
    IN /\ n = 0 => o = Absent
       /\ (n \in 1..4 /\ ~InRange(float(m[1]), float(m[2]))) => o = Absent
       /\ (n # 0 /\ Present(o)) => {Lng(o), Lat(o)} = {float(m[1]), float(m[2])}

\* C13: in the pattern layer the first rule that matches decides: a pair
\* that is returned consists of the two numbers that rule captured, and
\* when they are out of range the layer returns (None, None) although a
\* later rule would match.
C13_FirstMatchingRuleDecides ==
    /\ (engine = "enh" /\ 1 \in Invoked) => FirstRuleDecides(link.s, TRUE, outs[1])
    /\ (engine = "par" /\ fut[1] \in {"done", "yielded"}) =>
           FirstRuleDecides(link.s, FALSE, fres[1])

\* "@120.0,45.0": the @ rule captures latitude 120 and is rejected, the
\* bare-pair rule would have returned (120, 45)
C13_Witness ==
    /\ engine = "enh" /\ 1 \in Invoked
    /\ M1First(link.s, TRUE) \in 1..4
    /\ outs[1] = Absent
    /\ M1Match(link.s, 5, TRUE) # NoMatch
    /\ Present(BarePair2(M1Match(link.s, 5, TRUE)))

\* the match of pattern n of map_converter.extract_coordinates_from_url on
\* s: @.., q=.., /place/../@.., bare pair
MCMatch(s, n) ==
    CASE n = 1 -> SearchHeadPair(s, AtKinds, ",", TRUE)
      [] n = 2 -> SearchHeadPair(s, QKinds, ",", TRUE)
      [] n = 3 -> SearchPlacePair(s, TRUE)
      [] n = 4 -> SearchBarePair(s, TRUE)

MCFirst(s) == Leftmost({n \in 1..4 : MCMatch(s, n) # NoMatch})

\* the first matching rule of s is an anchored one and captures a latitude
\* outside [-90, 90] or a longitude outside [-180, 180]
RejectedMC(s) ==
    LET n == MCFirst(s)
        m == MCMatch(s, n)
    IN n \in 1..3 /\ ~InRange(float(m[1]), float(m[2]))

RejectedEnh(s) ==
    LET n == M1First(s, TRUE)
        m == M1Match(s, n, TRUE)
    IN n \in 1..4 /\ ~InRange(float(m[1]), float(m[2]))

\* C14: when the pattern rule that matches the input captures an
\* out-of-range latitude or longitude, extract_coordinates_from_url
\* returns (None, None), in map_converter and in the four-layer
\* orchestrator of map_converter_enhanced.
C14_OutOfRangeMatchReturnsAbsent ==
    /\ (engine = "mc" /\ SeqTerminal /\ RejectedMC(link.s)) => ret = Absent
    /\ (engine = "enh" /\ SeqTerminal /\ RejectedEnh(link.s)) => ret = Absent

\* what C15 says of the pair o returned for a match m of an anchored rule
SecondFirst(m, o) ==
    InRange(float(m[1]), float(m[2])) => o = Pair(float(m[2]), float(m[1]))

\* C15: in the anchored rules (query=..%2C.., @.., q=.., /place/../@..)
\* the first captured number is the latitude and the second the longitude:
\* for every in-range pair, of any signs, the rule returns
\* (second, first) as (longitude, latitude).
C15_AnchoredRulesLatFirst ==
    /\ (engine = "enh" /\ 1 \in Invoked /\ M1First(link.s, TRUE) \in 1..4) =>
           SecondFirst(M1Match(link.s, M1First(link.s, TRUE), TRUE), outs[1])
    /\ (engine = "par" /\ fut[1] \in {"done", "yielded"} /\ M1First(link.s, FALSE) \in 1..4) =>
           SecondFirst(M1Match(link.s, M1First(link.s, FALSE), FALSE), fres[1])
    /\ (engine = "mc" /\ SeqTerminal /\ net.head = 0 /\ MCFirst(link.s) \in 1..3) =>
           SecondFirst(MCMatch(link.s, MCFirst(link.s)), ret)

\* an anchored rule captured (-90, 120), a pair that is valid in this
\* order only, and (120, -90) was returned
C15_Witness ==
    /\ engine = "mc" /\ SeqTerminal /\ net.head = 0
    /\ MCFirst(link.s) \in 1..3
    /\ float(MCMatch(link.s, MCFirst(link.s))[1]) = -LatMax
    /\ ret = Pair(120, -LatMax)

IsLatitude(x) == -90 <= x /\ x <= 90
IsLongitude(x) == -180 <= x /\ x <= 180

\* what C16 says of the pair o returned for a bare pair c1, c2
BareOrientation(c1, c2, o) ==
    /\ (IsLatitude(c1) /\ IsLatitude(c2)) => o = Pair(c2, c1)
    /\ (IsLatitude(c1) /\ ~IsLatitude(c2) /\ IsLongitude(c2)) => o = Pair(c2, c1)
    /\ (IsLatitude(c2) /\ ~IsLatitude(c1) /\ IsLongitude(c1)) => o = Pair(c1, c2)

\* C16: in the bare-pair fallback rule, when exactly one of the two
\* numbers lies in [-90, 90] and the other in [-180, 180], the one in
\* [-90, 90] is returned as latitude whatever its position; when both lie
\* in [-90, 90] the first is the latitude.
C16_BarePairOrientation ==
    /\ (engine = "enh" /\ 1 \in Invoked /\ M1First(link.s, TRUE) = 5) =>
           BareOrientation(float(M1Match(link.s, 5, TRUE)[1]),
                           float(M1Match(link.s, 5, TRUE)[2]), outs[1])
    /\ (engine = "mc" /\ SeqTerminal /\ net.head = 0 /\ MCFirst(link.s) = 4) =>
           BareOrientation(float(MCMatch(link.s, 4)[1]),
                           float(MCMatch(link.s, 4)[2]), ret)

\* "120.0 ,45.0": only the second number can be a latitude, and it is
C16_Witness ==
    /\ engine = "enh" /\ 1 \in Invoked
    /\ M1First(link.s, TRUE) = 5
    /\ float(M1Match(link.s, 5, TRUE)[1]) = 120
    /\ outs[1] = Pair(120, 45)

\* C17: for a bare pair whose two numbers both exceed 90 (for example
\* "120.0, 150.0") map_converter still extracts: it takes the first as
\* latitude and the second as longitude and returns (150.0, 120.0).
C17_BothAbove90StillExtracted ==
    (/\ engine = "mc" /\ SeqTerminal /\ net.head = 0
     /\ MCFirst(link.s) = 4
     /\ float(MCMatch(link.s, 4)[1]) > 90
     /\ float(MCMatch(link.s, 4)[2]) > 90) =>
        ret = Pair(float(MCMatch(link.s, 4)[2]), float(MCMatch(link.s, 4)[1]))

\* the link with every integer literal written with a decimal fraction
\* ("40" -> "40.0")
Decimal(s) == [i \in 1..Len(s) |-> IF s[i].k = "num" THEN Num(s[i].v, TRUE) ELSE s[i]]

\* C18: integer literals are valid coordinates in every pattern rule: a
\* link written with integers is extracted exactly as the same link
\* written with decimals, by map_converter and by the pattern layer of
\* map_converter_parallel.
C18_IntegersAsDecimals ==
    /\ (engine = "mc" /\ SeqTerminal /\ net.head = 0) =>
           ret = PatternsMC(Decimal(link.s))
    /\ (engine = "par" /\ fut[1] \in {"done", "yielded"}) =>
           fres[1] = method1_parallel(Str(Decimal(link.s)))

\* is the host of the URL one of the short-link / regional domains
HostIsShort(s) == s # <<>> /\ s[1].k \in {"goo.gl", "google.co.za"}

\* C19: the resolver issues at most one network request per call, never
\* a second one, and none unless the URL's host is one of the short-link /
\* regional domains.
C19_ResolverOneRequestShortHostsOnly ==
    engine \in {"mc", "enh", "par"} =>
        /\ net.head <= 1
        /\ net.head = 1 => HostIsShort(link.s)

\* C20: when no API key is configured (neither passed nor in the
\* environment) the place-search layer returns (None, None) at once and
\* issues no request, whatever the input.
C20_NoKeyNoPlaceSearch ==
    ~apiKey =>
        /\ net.api = 0
        /\ 4 \notin caught
        /\ (engine = "enh" /\ 4 \in Invoked) => outs[4] = Absent
        /\ (engine = "par" /\ fut[4] \in {"done", "yielded"}) => fres[4] = Absent

\* the layer ran without a key on a link that names a place, which it
\* would have searched for with a key
C20_Witness ==
    /\ ~apiKey
    /\ engine = "enh" /\ 4 \in Invoked
    /\ Method4Requests(link, TRUE)
    /\ outs[4] = Absent

\* C21: the place-search layer never issues a request whose search text
\* is syntactically a coordinate pair, whether the text was taken from the
\* query= parameter, from the /place/<name> segment or from the
\* /search/<name> segment, in the sequential and in the parallel
\* orchestrator.
C21_NoPlaceSearchForCoordinateText ==
    (engine \in {"enh", "par"} /\ net.api >= 1) =>
        ~IsCoordinateText(Method4Query(link.s).text)

(***************************************************************************)
(* The row loops of the callers: map_converter.process_excel_file,         *)
(* flask_app.process_file and flask_app_streaming.process_file_streaming   *)
(* with process_single_url                                                 *)
(***************************************************************************)
\* the extraction engine is not called directly
EngineIdle(name) ==
    /\ Idle
    /\ engine = name
    /\ link = PyNone
    /\ InitCall
    /\ apiKey = FALSE

MAX_ATTEMPTS == 3
NumRows == 2

Callers == {"excel", "flask", "stream"}
Skipped == "Skipped: No map link provided"
\* the cells LONG, LATTs a sheet may already hold
OldCells == Pair(1, 2)

\* the map-link cells of a sheet: NaN, '', ' ', and three links
RowLinks ==
    { PyNone, Str(<<>>), Str(<<Tok("sp")>>),
      Str(<<Host, Tok("@"), Num(45, TRUE), Tok(","), Num(120, TRUE)>>),
      Str(<<Host, Name>>),
      Str(<<Short, Name>>) }

\* pd.isna(map_link) or str(map_link).strip() == ''
IsBlankRow(l) == l = PyNone \/ \A i \in 1..Len(l.s) : l.s[i].k = "sp"

\* extract_coordinates_from_url(str(map_link)): one pair per answer of the
\* network
ReturnsMC(l) == {PatternsMC(ResolvedLinkMC(l, resp)) : resp \in HeadResps(l)}

\* what a worker of extract_coordinates_parallel can leave in the dict
MethodReturns(m, l) ==
    {Absent} \cup
    CASE m = 1 -> {method1_parallel(l)}
      [] m = 2 -> {method2_url_resolution(l, resp, FALSE) : resp \in HeadResps(l)}
      [] m = 3 -> {method3_html_scraping(l, resp) : resp \in GetResps}
      [] m = 4 -> {method4_google_places_api(l, k[1], k[2]) : k \in BOOLEAN \X ApiResps}
      [] m = 5 -> {method5_selenium_scraping(l, resp) : resp \in PageResps}

\* results = extract_coordinates_parallel(str(map_link)) followed by the
\* loop over results.items()
ReturnsFlask(l) ==
    {BestFlask(<<a, b, c, d, e>>) :
        a \in MethodReturns(1, l), b \in MethodReturns(2, l), c \in MethodReturns(3, l),
        d \in MethodReturns(4, l), e \in MethodReturns(5, l)}

\* the pairs an attempt can return, per caller and link
ReturnsTable ==
    [c \in Callers |->
        [l \in {k \in RowLinks : ~IsBlankRow(k)} |->
            IF c = "flask" THEN ReturnsFlask(l) ELSE ReturnsMC(l)]]

EngineReturns(c, l) == ReturnsTable[c][l]

\* how one attempt ends: the engine returns a pair, or TimeoutError or
\* another Exception reaches the except clauses of the loop
AttemptOutcomes(c, l) ==
    {[kind |-> "returned", p |-> p] : p \in EngineReturns(c, l)}
        \cup {[kind |-> "raised", p |-> Absent], [kind |-> "timeout", p |-> Absent]}

OutcomeName(o) ==
    IF o.kind # "returned" THEN o.kind
    ELSE IF Present(o.p) THEN "ok" ELSE "absent"

Row(l, cells) ==
    [link |-> l, orig |-> cells, cells |-> cells, comment |-> "",
     hist |-> <<>>, sleeps |-> 0, reported |-> 0]

InitRows ==
    /\ EngineIdle("rows") /\ BareIdle /\ WebIdle
    /\ caller \in Callers
    /\ table \in [1..NumRows -> {Row(l, c) : l \in RowLinks, c \in {Absent, OldCells}}]
    /\ idx = 1
    /\ rpc = "row"
    /\ attempt = 0
    /\ got = NotRun
    /\ counters = [successful |-> 0, failed |-> 0, skipped |-> 0]

\* successful += 1, failed += 1, skipped += 1: process_excel_file keeps no
\* counters
Count(c, name) == IF caller = "excel" THEN c ELSE [c EXCEPT ![name] = @ + 1]

rowRest == <<engVars, parVars, valVars, bareVars, webVars>>

\* the branch of a blank row: the comment, and continue
RowSkip ==
    /\ rpc = "row" /\ idx <= NumRows
    /\ IsBlankRow(table[idx].link)
    /\ table' = [table EXCEPT ![idx].comment = Skipped]
    /\ counters' = Count(counters, "skipped")
    /\ idx' = idx + 1
    /\ UNCHANGED <<caller, rpc, attempt, got>>
    /\ UNCHANGED rowRest

\* lng, lat = None, None; for attempt in range(1, MAX_ATTEMPTS + 1)
RowBegin ==
    /\ rpc = "row" /\ idx <= NumRows
    /\ ~IsBlankRow(table[idx].link)
    /\ got' = Absent
    /\ attempt' = 1
    /\ rpc' = "attempt"
    /\ UNCHANGED <<caller, table, idx, counters>>
    /\ UNCHANGED rowRest

\* if attempt < MAX_ATTEMPTS: time.sleep(RETRY_DELAY)
SleepsAfter_always(a) == TRUE

SleepsAfter(a) == a < MAX_ATTEMPTS

\* the next iteration of the for loop, or its end
LoopNext(a) ==
    IF a < MAX_ATTEMPTS
    THEN /\ attempt' = a + 1
         /\ rpc' = "attempt"
    ELSE /\ attempt' = a
         /\ rpc' = "record"

\* one iteration of the retry loop up to the break or the sleep
RowAttempt ==
    /\ rpc = "attempt"
    /\ \E o \in AttemptOutcomes(caller, table[idx].link) :
           /\ got' = IF o.kind = "returned" THEN o.p ELSE got
           /\ table' = [table EXCEPT ![idx].hist = Append(@, OutcomeName(o))]
           /\ IF OutcomeName(o) = "ok"
              THEN /\ rpc' = "record"
                   /\ attempt' = attempt
              ELSE IF SleepsAfter(attempt)
                   THEN /\ rpc' = "sleep"
                        /\ attempt' = attempt
                   ELSE LoopNext(attempt)
    /\ UNCHANGED <<caller, idx, counters>>
    /\ UNCHANGED rowRest

\* time.sleep(RETRY_DELAY) returns
RowSleep ==
    /\ rpc = "sleep"
    /\ table' = [table EXCEPT ![idx].sleeps = @ + 1]
    /\ LoopNext(attempt)
    /\ UNCHANGED <<caller, idx, got, counters>>
    /\ UNCHANGED rowRest

\* the cells of a row after "Record results"
RowCells_cleared(r, p) == p

RowCells(r, p) == IF Present(p) THEN p ELSE r.cells

\* Record results
RowRecord ==
    /\ rpc = "record"
    /\ table' = [table EXCEPT ![idx] =
                    [table[idx] EXCEPT
                        !.cells = RowCells(table[idx], got),
                        !.comment = IF Present(got) THEN "Success" ELSE "Failed",
                        !.reported = IF Present(got) THEN attempt ELSE MAX_ATTEMPTS]]
    /\ counters' = Count(counters, IF Present(got) THEN "successful" ELSE "failed")
    /\ idx' = idx + 1
    /\ rpc' = "row"
    /\ UNCHANGED <<caller, attempt, got>>
    /\ UNCHANGED rowRest

\* df.to_excel(...) after the last row
RowsSave ==
    /\ rpc = "row" /\ idx = NumRows + 1
    /\ rpc' = "saved"
    /\ UNCHANGED <<caller, table, idx, attempt, got, counters>>
    /\ UNCHANGED rowRest

NextRows == RowSkip \/ RowBegin \/ RowAttempt \/ RowSleep \/ RowRecord \/ RowsSave

SpecRows == InitRows /\ [][NextRows]_vars

(***************************************************************************)
(* Properties of the row loops                                             *)
(***************************************************************************)
\* the rows the loop has left behind
RowDone(i) == i < idx

RowsWith(c) == {i \in 1..NumRows : table[i].comment = c}

\* C23: every row ends in exactly one outcome. A blank row (missing, empty
\* or whitespace link) is never passed to the engine, gets the comment
\* 'Skipped: No map link provided' and keeps its longitude and latitude
\* cells; a non-blank row is either 'Success' with both cells written from
\* one returned pair, or failed with both cells as they were; and in the
\* web applications successful + failed + skipped is the number of rows
\* processed, the number of all rows at the end.
C23_RowOutcomes ==
    /\ \A i \in 1..NumRows :
           LET r == table[i]
           IN /\ IsBlankRow(r.link) => r.hist = <<>>
              /\ ~RowDone(i) => (r.comment = "" /\ r.cells = r.orig)
              /\ RowDone(i) =>
                     /\ r.comment \in {Skipped, "Success", "Failed"}
                     /\ (r.comment = Skipped) <=> IsBlankRow(r.link)
              /\ r.comment \in {Skipped, "Failed"} => r.cells = r.orig
              /\ r.comment = "Success" =>
                     /\ IsValue(r.cells)
                     /\ r.cells \in EngineReturns(caller, r.link)
    /\ caller # "excel" =>
           /\ counters.successful = Cardinality(RowsWith("Success"))
           /\ counters.failed = Cardinality(RowsWith("Failed"))
           /\ counters.skipped = Cardinality(RowsWith(Skipped))
           /\ counters.successful + counters.failed + counters.skipped = idx - 1
           /\ rpc = "saved" => idx - 1 = NumRows

C23_Witness ==
    /\ rpc = "saved"
    /\ caller = "flask"
    /\ \E i, j \in 1..NumRows :
           /\ table[i].comment = "Failed" /\ table[i].orig = OldCells
           /\ table[j].comment = "Success" /\ table[j].orig = OldCells
    /\ counters = [successful |-> 1, failed |-> 1, skipped |-> 0]

(***************************************************************************)
(* The web applications flask_app and flask_app_streaming: sessions,       *)
(* cleanup and download                                                    *)
(***************************************************************************)
Sessions == {1, 2}
\* the clock counts in units of 7200 seconds: SESSION_TTL = 7200
SESSION_TTL == 1
MaxNow == 2

Apps == {"flask", "streaming"}
Statuses == {"uploaded", "processing", "completed", "error"}

\* what session_info['output_path'] can name: the key is not set, a file
\* of the processed folder, a path outside of it, a path through a symlink
\* of the processed folder that leads outside, a relative path that climbs
\* out with '..', a directory of the processed folder
PathKinds == {"unset", "inside", "outside", "symlink", "dotdot", "folder"}

Session(st, t, path, fname) ==
    [status |-> st, created_at |-> t, output_path |-> path, output_filename |-> fname]

\* Path(...).resolve() followed by relative_to(processed_folder): "in" when
\* the resolved path lies in the processed folder
Resolve_lexical(path) == IF path \in {"inside", "folder", "symlink"} THEN "in" ELSE "out"

Resolve(path) == IF path \in {"inside", "folder"} THEN "in" ELSE "out"

\* output_path.exists(), output_path.is_file(): the processed file of a
\* session exists when it is in fs
PathExists(path, fs, s) ==
    path \in {"folder", "outside", "symlink"} \/ (path = "inside" /\ s \in fs)

PathIsFile(path, fs, s) ==
    path \in {"outside", "symlink"} \/ (path = "inside" /\ s \in fs)

Response(s, code, error, served) ==
    [sid |-> s, code |-> code, error |-> error, served |-> served]

NoResponse == Response(0, 0, "", FALSE)

\* download_file(session_id): the answer
download_file(st, fs, s) ==
    IF s \notin DOMAIN st THEN Response(s, 404, "Invalid session ID", FALSE)
    ELSE IF st[s].status # "completed"
    THEN Response(s, 400, "File has not been processed yet", FALSE)
    ELSE IF st[s].output_path = "unset"
    THEN Response(s, 500, "Error downloading file", FALSE)
    ELSE IF Resolve(st[s].output_path) = "out"
    THEN Response(s, 403, "Invalid file path", FALSE)
    ELSE IF ~PathExists(st[s].output_path, fs, s)
    THEN Response(s, 404, "File not found", FALSE)
    ELSE IF ~PathIsFile(st[s].output_path, fs, s)
    THEN Response(s, 400, "Invalid file", FALSE)
    ELSE IF ~st[s].output_filename
    THEN Response(s, 500, "Error downloading file", FALSE)
    ELSE Response(s, 200, "", TRUE)

\* session_info['created_at'] = time.time() of a session that is known
Refreshed(st, s, t) ==
    IF s \in DOMAIN st THEN [st EXCEPT ![s].created_at = t] ELSE st

\* cleanup_old_sessions: the sessions it removes
Expired(st, t) == {s \in DOMAIN st : t - st[s].created_at > SESSION_TTL}

\* ... the processed files it deletes: flask_app looks up 'output_path',
\* flask_app_streaming looks up 'processed_path', a key no session has
DeletedOutputs(a, st, t) ==
    IF a = "flask" THEN {s \in Expired(st, t) : st[s].output_path # "unset"} ELSE {}

\* ... the entries of session_locks it deletes
DeletedLocks(a, st, t) == IF a = "flask" THEN {} ELSE Expired(st, t)

Restrict(f, D) == [x \in D |-> f[x]]

\* after_request_cleanup -> cleanup_old_sessions(), run on what the handler
\* left: the store st, the locks lk, the uploaded files up, the processed
\* files ou
Cleanup(st, lk, up, ou) ==
    /\ store' = Restrict(st, DOMAIN st \ Expired(st, now))
    /\ uploads' = up \ Expired(st, now)
    /\ outputs' = ou \ DeletedOutputs(app, st, now)
    /\ lock' = Restrict(lk, DOMAIN lk \ DeletedLocks(app, st, now))

\* a step that is not the end of a request
NoCleanup(st, lk, up, ou) ==
    /\ store' = st
    /\ uploads' = up
    /\ outputs' = ou
    /\ lock' = lk

webRest == <<engVars, parVars, valVars, rowVars, bareVars>>

\* GET /download/<session_id>
Download(s) ==
    /\ dl' = download_file(store, outputs, s)
    /\ Cleanup(Refreshed(store, s, now), lock, uploads, outputs)
    /\ UNCHANGED <<app, now, used, rq>>
    /\ UNCHANGED webRest

\* the processing requests the model follows, one arrival each
Reqs == {1, 2}
NoRequest == [sid |-> 0, pc |-> "idle", out |-> ""]

\* download_file applied to the records a store can hold
InitDownload ==
    /\ EngineIdle("download") /\ RowsIdle /\ BareIdle
    /\ app \in Apps
    /\ now = 0
    /\ \E D \in SUBSET {1} :
           store \in [D -> {Session(st, 0, path, fname) :
                               st \in Statuses, path \in PathKinds, fname \in BOOLEAN}]
    /\ used = DOMAIN store
    /\ uploads = {}
    /\ outputs \in SUBSET {1}
    /\ lock = <<>>
    /\ rq = [r \in Reqs |-> NoRequest]
    /\ dl = NoResponse

NextDownload == \E s \in Sessions : Download(s)

SpecDownload == InitDownload /\ [][NextDownload]_vars

\* output_path leads out of the processed folder
EscapesFolder(path) == path \in {"outside", "symlink", "dotdot"}

\* C24: download serves a file only when the session exists, its status is
\* 'completed' and its output path, symbolic links resolved, lies inside the
\* processed folder; in every other case nothing is served. The answer is
\* 404 for an unknown session, else 400 for a session that is not completed,
\* else 403 'Invalid file path' for a path outside the folder.
C24_DownloadGuards ==
    dl # NoResponse =>
        LET s == dl.sid
            known == s \in DOMAIN store
        IN /\ dl.served =>
                  /\ known
                  /\ store[s].status = "completed"
                  /\ ~EscapesFolder(store[s].output_path)
                  /\ store[s].output_path # "unset"
           /\ dl.code # 200 => ~dl.served
           /\ ~known => dl.code = 404
           /\ (known /\ store[s].status # "completed") => dl.code = 400
           /\ (known /\ store[s].status = "completed"
                     /\ EscapesFolder(store[s].output_path)) =>
                  (dl.code = 403 /\ dl.error = "Invalid file path")

C24_Witness ==
    /\ dl.sid \in DOMAIN store
    /\ dl.code = 403
    /\ store[dl.sid].output_path = "symlink"

(***************************************************************************)
(* The web applications: upload, the processing request, the clock         *)
(***************************************************************************)
InitFlask ==
    /\ EngineIdle("web") /\ RowsIdle /\ BareIdle
    /\ app \in Apps
    /\ now = 0
    /\ store = <<>>
    /\ used = {}
    /\ uploads = {}
    /\ outputs = {}
    /\ lock = <<>>
    /\ rq = [r \in Reqs |-> NoRequest]
    /\ dl = NoResponse

\* time.time() advances
Tick ==
    /\ now < MaxNow
    /\ now' = now + 1
    /\ UNCHANGED <<app, store, used, uploads, outputs, lock, rq, dl>>
    /\ UNCHANGED webRest

\* POST /upload: a new session id, the uploaded file, the session record
Upload(s) ==
    /\ s \notin used
    /\ used' = used \cup {s}
    /\ Cleanup([x \in DOMAIN store \cup {s} |->
                   IF x = s THEN Session("uploaded", now, "unset", FALSE) ELSE store[x]],
               lock, uploads \cup {s}, outputs)
    /\ UNCHANGED <<app, now, rq, dl>>
    /\ UNCHANGED webRest

\* a request of any other route, GET /health for one: only the cleanup runs
OtherRequest ==
    /\ Expired(store, now) # {}
    /\ Cleanup(store, lock, uploads, outputs)
    /\ UNCHANGED <<app, now, used, rq, dl>>
    /\ UNCHANGED webRest

\* session_info[...] = ...: session_info is the record read at the start;
\* once cleanup has removed it from processing_results the write goes to a
\* record nobody else sees
WriteInfo(st, s, field, v) ==
    IF s \in DOMAIN st THEN [st EXCEPT ![s][field] = v] ELSE st

Ended(r, out) == [rq EXCEPT ![r] = [@ EXCEPT !.pc = "done", !.out = out]]
At(r, p) == [rq EXCEPT ![r].pc = p]

\* session_lock.acquire(blocking=False) succeeds on every lock
TryAcquire_always(lk, s) == TRUE

\* get_session_lock(session_id) and session_lock.acquire(blocking=False)
TryAcquire(lk, s) == s \notin DOMAIN lk \/ ~lk[s]

Held(lk, s, v) == [x \in DOMAIN lk \cup {s} |-> IF x = s THEN v ELSE lk[x]]

\* finally: session_lock.release(); flask_app_streaming takes no lock
Released_onSuccess(lk, s, raised) ==
    IF app = "flask" /\ ~raised THEN Held(lk, s, FALSE) ELSE lk

Released(lk, s, raised) == IF app = "flask" THEN Held(lk, s, FALSE) ELSE lk

\* the end of a processing request: flask_app returns a response and the
\* cleanup runs after it, the generator of flask_app_streaming just ends
EndOfRequest(st, lk, up, ou) ==
    IF app = "flask" THEN Cleanup(st, lk, up, ou) ELSE NoCleanup(st, lk, up, ou)

\* POST /process/<session_id>, GET /process-stream/<session_id>: the check
\* of the session id; process_stream also marks the session and returns the
\* streaming response
ProcArrive(r, s) ==
    /\ rq[r].pc = "idle"
    /\ IF s \notin DOMAIN store
       THEN /\ rq' = [rq EXCEPT ![r] = [sid |-> s, pc |-> "done", out |-> "invalid"]]
            /\ Cleanup(store, lock, uploads, outputs)
       ELSE IF app = "flask"
       THEN /\ rq' = [rq EXCEPT ![r] = [sid |-> s, pc |-> "acquire", out |-> ""]]
            /\ NoCleanup(store, lock, uploads, outputs)
       ELSE /\ rq' = [rq EXCEPT ![r] = [sid |-> s, pc |-> "enter", out |-> ""]]
            /\ Cleanup(WriteInfo(WriteInfo(store, s, "status", "processing"),
                                 s, "created_at", now),
                       lock, uploads, outputs)
    /\ UNCHANGED <<app, now, used, dl>>
    /\ UNCHANGED webRest

\* process_file: the lock of the session
ProcAcquire(r) ==
    /\ rq[r].pc = "acquire"
    /\ IF TryAcquire(lock, rq[r].sid)
       THEN /\ rq' = At(r, "enter")
            /\ NoCleanup(store, Held(lock, rq[r].sid, TRUE), uploads, outputs)
       ELSE /\ rq' = Ended(r, "busy")
            /\ Cleanup(store, lock, uploads, outputs)
    /\ UNCHANGED <<app, now, used, dl>>
    /\ UNCHANGED webRest

\* the except clause and the finally clause
Fail(r, st, out) ==
    /\ rq' = Ended(r, out)
    /\ EndOfRequest(WriteInfo(st, rq[r].sid, "status", "error"),
                    Released(lock, rq[r].sid, TRUE), uploads, outputs)

\* session_info = processing_results[session_id]; process_file refreshes
\* created_at and sets the status 'processing'. A session that is gone
\* raises KeyError, and the except clause raises on the unbound session_info
ProcEnter(r) ==
    /\ rq[r].pc = "enter"
    /\ IF rq[r].sid \notin DOMAIN store
       THEN Fail(r, store, "crash")
       ELSE /\ rq' = At(r, "read")
            /\ NoCleanup(IF app = "flask"
                         THEN WriteInfo(WriteInfo(store, rq[r].sid, "created_at", now),
                                        rq[r].sid, "status", "processing")
                         ELSE store,
                         lock, uploads, outputs)
    /\ UNCHANGED <<app, now, used, dl>>
    /\ UNCHANGED webRest

\* df = pd.read_excel(session_info['upload_path'])
ProcRead(r) ==
    /\ rq[r].pc = "read"
    /\ IF rq[r].sid \in uploads
       THEN /\ rq' = At(r, "rows")
            /\ NoCleanup(store, lock, uploads, outputs)
       ELSE Fail(r, store, "error")
    /\ UNCHANGED <<app, now, used, dl>>
    /\ UNCHANGED webRest

\* the columns and the row loop: they end, or something raises
ProcRows(r) ==
    /\ rq[r].pc = "rows"
    /\ \/ /\ rq' = At(r, "save")
          /\ NoCleanup(store, lock, uploads, outputs)
       \/ Fail(r, store, "error")
    /\ UNCHANGED <<app, now, used, dl>>
    /\ UNCHANGED webRest

\* df.to_excel(str(output_path), index=False)
ProcSave(r) ==
    /\ rq[r].pc = "save"
    /\ rq' = At(r, "completed")
    /\ NoCleanup(store, lock, uploads, outputs \cup {rq[r].sid})
    /\ UNCHANGED <<app, now, used, dl>>
    /\ UNCHANGED webRest

\* session_info['status'] = 'completed'
ProcCompleted(r) ==
    /\ rq[r].pc = "completed"
    /\ rq' = At(r, "output_path")
    /\ NoCleanup(WriteInfo(store, rq[r].sid, "status", "completed"), lock, uploads, outputs)
    /\ UNCHANGED <<app, now, used, dl>>
    /\ UNCHANGED webRest

\* session_info['output_path'] = str(output_path)
ProcOutputPath(r) ==
    /\ rq[r].pc = "output_path"
    /\ rq' = At(r, "return")
    /\ NoCleanup(WriteInfo(store, rq[r].sid, "output_path", "inside"), lock, uploads, outputs)
    /\ UNCHANGED <<app, now, used, dl>>
    /\ UNCHANGED webRest

\* session_info['output_filename'] = output_filename, the other keys, the
\* response, and the finally clause
ProcReturn(r) ==
    /\ rq[r].pc = "return"
    /\ rq' = Ended(r, "ok")
    /\ EndOfRequest(WriteInfo(store, rq[r].sid, "output_filename", TRUE),
                    Released(lock, rq[r].sid, FALSE), uploads, outputs)
    /\ UNCHANGED <<app, now, used, dl>>
    /\ UNCHANGED webRest

NextFlask ==
    \/ Tick
    \/ OtherRequest
    \/ \E s \in Sessions : Upload(s)
    \/ \E s \in Sessions : Download(s)
    \/ \E r \in Reqs, s \in Sessions : ProcArrive(r, s)
    \/ \E r \in Reqs : ProcAcquire(r)
    \/ \E r \in Reqs : ProcEnter(r)
    \/ \E r \in Reqs : ProcRead(r)
    \/ \E r \in Reqs : ProcRows(r)
    \/ \E r \in Reqs : ProcSave(r)
    \/ \E r \in Reqs : ProcCompleted(r)
    \/ \E r \in Reqs : ProcOutputPath(r)
    \/ \E r \in Reqs : ProcReturn(r)

SpecFlask == InitFlask /\ [][NextFlask]_vars

(***************************************************************************)
(* Properties of the web applications                                      *)
(***************************************************************************)
\* the request is between the acquire of the session lock and its release
InBody(r) ==
    rq[r].pc \in {"enter", "read", "rows", "save", "completed", "output_path", "return"}

OneBodyPerSession ==
    \A r1, r2 \in Reqs :
        (r1 # r2 /\ InBody(r1) /\ InBody(r2)) => rq[r1].sid # rq[r2].sid

\* a step in which request r is answered 'File is already being processed'
AnsweredBusy(r) == rq[r].pc = "acquire" /\ rq'[r].pc = "done" /\ rq'[r].out = "busy"

\* C25: in flask_app at most one process_file request per session executes
\* the processing body. A request that finds the lock of its session held is
\* answered 'File is already being processed' and writes nothing to the
\* session record; it is answered so only when another request is in the
\* body for the same session, so requests for different sessions do not
\* exclude each other.
C25_OneProcessingPerSession ==
    /\ [](app = "flask" => OneBodyPerSession)
    /\ [][\A r \in Reqs :
            AnsweredBusy(r) =>
                LET s == rq[r].sid
                IN /\ \E r2 \in Reqs \ {r} : InBody(r2) /\ rq[r2].sid = s
                   /\ s \in DOMAIN store' => store'[s] = store[s]
                   /\ (s \in DOMAIN store /\ s \notin Expired(store, now)) =>
                          s \in DOMAIN store']_vars

C25_Witness ==
    /\ app = "flask"
    /\ InBody(1)
    /\ rq[2].pc = "done" /\ rq[2].out = "busy" /\ rq[2].sid = rq[1].sid
    /\ rq[1].sid \in DOMAIN store

LockHeld(s) == s \in DOMAIN lock /\ lock[s]

\* every held lock belongs to a request that is in the body
HeldByARequest ==
    \A s \in Sessions : LockHeld(s) => \E r \in Reqs : InBody(r) /\ rq[r].sid = s

\* a request that has entered the body of process_file runs on
ProcStep(r) ==
    \/ ProcEnter(r) \/ ProcRead(r) \/ ProcRows(r) \/ ProcSave(r)
    \/ ProcCompleted(r) \/ ProcOutputPath(r) \/ ProcReturn(r)

\* the thread of a request is scheduled again and again
SpecFlaskFair == SpecFlask /\ \A r \in Reqs : WF_vars(ProcStep(r))

\* C26: the lock of a session is always released, whether the processing
\* completes, answers with an error or raises: a held lock belongs to a
\* request that is still in the body, and it becomes free again, so that a
\* later request for the session can acquire it.
C26_LockAlwaysReleased ==
    /\ [](app = "flask" => HeldByARequest)
    /\ \A s \in Sessions : LockHeld(s) ~> ~LockHeld(s)

C26_Witness ==
    /\ app = "flask"
    /\ rq[1].pc = "done" /\ rq[1].out = "crash"
    /\ rq[1].sid \in DOMAIN lock /\ ~lock[rq[1].sid]

\* a step that removed sessions from processing_results
RemovedSessions == DOMAIN store \ DOMAIN store'

\* C27: cleanup_old_sessions removes exactly the sessions whose age exceeds
\* SESSION_TTL, deletes the uploaded file and the processed file of each of
\* them, and leaves every other session and its files as they were, in
\* flask_app and in flask_app_streaming.
C27_CleanupRemovesExpired ==
    [][RemovedSessions # {} =>
          /\ \A s \in RemovedSessions :
                 /\ now - store[s].created_at > SESSION_TTL
                 /\ s \notin uploads'
                 /\ s \notin outputs'
          /\ \A s \in DOMAIN store \cap DOMAIN store' :
                 /\ now - store'[s].created_at <= SESSION_TTL
                 /\ s \in uploads' <=> s \in uploads
                 /\ s \in outputs' <=> s \in outputs]_vars

\* the request is past the refresh of created_at and has not ended
Processing(r) ==
    \/ rq[r].pc \in {"read", "rows", "save", "completed", "output_path", "return"}
    \/ (app = "streaming" /\ rq[r].pc = "enter")

\* C28: a session is never removed by cleanup while it is being processed:
\* after the refresh of created_at at the start of the processing, the
\* session record and the uploaded file stay until the processing has
\* ended, whatever cleanup other requests trigger.
C28_NoCleanupWhileProcessing ==
    \A r \in Reqs :
        Processing(r) =>
            /\ rq[r].sid \in DOMAIN store
            /\ rq[r].sid \in uploads

\* C30: in every reachable state of flask_app, the states between two steps
\* of a running process_file included, a session with status 'completed'
\* has output_path and output_filename set, so that a download never finds
\* a completed session without its output path.
C30_CompletedHasOutput ==
    app = "flask" =>
        \A s \in DOMAIN store :
            store[s].status = "completed" =>
                (store[s].output_path # "unset" /\ store[s].output_filename)

(***************************************************************************)
(* The bare-pair branches of the three extractors, applied to two numbers  *)
(***************************************************************************)
\* the branch of map_converter's if-chain that is taken
BarePair5Branch(m) ==
    LET coord1 == float(m[1])
        coord2 == float(m[2])
    IN IF Abs(coord1) <= LatMax /\ Abs(coord2) <= LngMax THEN 1
       ELSE IF Abs(coord2) <= LatMax /\ Abs(coord1) <= LngMax THEN 2
       ELSE IF Abs(coord1) <= LatMax THEN 3
       ELSE IF Abs(coord2) <= LatMax THEN 4
       ELSE 5

InitBare ==
    /\ EngineIdle("bare") /\ RowsIdle /\ WebIdle
    /\ bc1 \in Coords /\ bc2 \in Coords
    /\ bOut = <<>>

\* coord1, coord2 = float(match.group(1)), float(match.group(2)) and the
\* branches, in map_converter and in map_converter_enhanced / _parallel
CallBare ==
    /\ bOut = <<>>
    /\ LET m == <<Num(bc1, TRUE), Num(bc2, TRUE)>>
       IN bOut' = [mc |-> BarePair5(m), enh |-> BarePair2(m), branch |-> BarePair5Branch(m)]
    /\ UNCHANGED <<bc1, bc2>>
    /\ UNCHANGED <<engVars, parVars, valVars, rowVars, webVars>>

NextBare == CallBare

SpecBare == InitBare /\ [][NextBare]_vars

====
